---- MODULE Spec2Model ----
(***************************************************************************)
(* Crawl orchestration, extraction and resume/deduplication of the         *)
(* Burmese corpus scraper (scraper/main.py, crawler.py, extractor.py,      *)
(* storage.py, utils.py).                                                  *)
(*                                                                         *)
(* Python values are modelled as follows.  None is the record None.  A URL *)
(* is a pair <<kind, n>>: <<"archive", 1>> is the base archive URL,        *)
(* <<"archive", n>> the archive URL of page n and <<"article", k>> the URL *)
(* of article k.  Page content is a record; what the code reads from it    *)
(* (its length class, the nodes a selector matches, whether the parser     *)
(* rejects it) are its fields.                                             *)
(***************************************************************************)
EXTENDS Integers, Sequences, FiniteSets, TLC

\* ------------------------------------------------------------ bounds
MaxUrls == 2        \* distinct article URLs the site links to
MaxListLen == 2     \* length of an operator-supplied URL-list file
MaxItems == 1       \* archive items on one archive page
MaxSitePages == 2   \* archive pages the site serves beyond the base page
MaxLines == 3       \* lines of an output file given to get_existing_ids
MaxEnumPages == 4   \* pages the enumeration may visit in the pagination model
MaxSelLen == 4      \* characters of a selector given to validate_selector_format

\* ------------------------------------------------------------ values
None == [kind |-> "None"]

ArticleUrls == {<<"article", k>> : k \in 1..MaxUrls}
BaseUrl == <<"archive", 1>>

\* utils.generate_id: md5 hex digest of the URL string; a one-way map that is
\* injective on the URLs of a run.
generate_id(url) == <<"md5", url[1], url[2]>>

\* urlparse(url).scheme + '://' + urlparse(url).netloc: every URL of the model
\* is on the one site.
source_url_of(url) == <<"origin", "https://site.test">>

\* get_current_timestamp().split('T')[0]
Today == "2024-01-01"

RECURSIVE SeqToSet(_)
SeqToSet(s) == IF s = <<>> THEN {} ELSE {Head(s)} \cup SeqToSet(Tail(s))

SeqsUpTo(S, n) == UNION {[1..k -> S] : k \in 0..n}

\* ------------------------------------------------------------ page content
\* What a fetch returns: None, or the markup of a page.  Of a page the code
\* reads: len(content) >= 1000 (long), whether html.parser rejects the markup
\* (BeautifulSoup raises), the item blocks the archive selector matches, the
\* number of nodes the content selector matches, and the title candidates
\* (their lengths, in the priority order of _extract_title).
Page(long, rejected, items, cnodes, titles) ==
    [kind |-> "html", long |-> long, rejected |-> rejected, items |-> items,
     cnodes |-> cnodes, titles |-> titles]

\* An item block of an archive page: the link target of its anchor (None when
\* the block holds no anchor with an href) and the image the thumbnail
\* selector finds in it (None when there is none).
Hrefs == {[kind |-> "href", k |-> k] : k \in 1..MaxUrls}
\* The image of the item block that links to article k: on the site of the
\* model the first article is listed with an image, the others without.
ItemImage(k) == IF k = 1 THEN [kind |-> "img", k |-> k] ELSE None
ItemBlock(href) == [href |-> href,
                    img |-> IF href = None THEN None ELSE ItemImage(href.k)]

\* utils.normalize_url: urljoin(base_url, relative_url)
normalize_url(base, href) == <<"article", href.k>>

MinTitleLen == 5

\* ContentExtractor._extract_title: the first candidate longer than 5
\* characters, else None.
RECURSIVE _extract_title(_)
_extract_title(titles) ==
    IF titles = <<>> THEN None
    ELSE IF Head(titles) > MinTitleLen THEN [kind |-> "str", len |-> Head(titles)]
    ELSE _extract_title(Tail(titles))

Article(url, title, raw) ==
    [kind |-> "article", id |-> generate_id(url), title |-> title, url |-> url,
     thumbnail_url |-> None, raw_html_content |-> raw,
     scraped_date |-> Today, source_url |-> source_url_of(url)]

RawHtml == [kind |-> "str", len |-> 1]

\* ContentExtractor.extract_article_content with the exception path returning
\* None as the selector miss does.
extract_article_content_none_on_error(content, url) ==
    IF content.rejected \/ content.cnodes = 0 THEN None
    ELSE Article(url, _extract_title(content.titles), RawHtml)

\* ContentExtractor.extract_article_content(content, url, content_selector):
\* an exception inside the try block (the parser rejecting the markup) yields
\* the partial record of the except branch; a selector miss returns None.
extract_article_content(content, url) ==
    IF content.rejected THEN Article(url, None, None)
    ELSE IF content.cnodes = 0 THEN None
    ELSE Article(url, _extract_title(content.titles), RawHtml)

\* ContentExtractor._extract_single_archive_item: None for a block without a
\* link, else the item with its URL resolved against the base URL and the
\* URL of its image as thumbnail_url.
_extract_single_archive_item(block, base) ==
    IF block.href = None THEN None
    ELSE [url |-> normalize_url(base, block.href),
          thumbnail_url |-> IF block.img = None THEN None
                            ELSE [kind |-> "url", path |-> "thumb", k |-> block.img.k]]

\* ContentExtractor.extract_archive_items: the items of the matched blocks in
\* document order, blocks without a link left out; [] when parsing raises.
RECURSIVE ItemsOf(_, _)
ItemsOf(blocks, base) ==
    IF blocks = <<>> THEN <<>>
    ELSE LET item == _extract_single_archive_item(Head(blocks), base)
         IN  IF item = None THEN ItemsOf(Tail(blocks), base)
             ELSE <<item>> \o ItemsOf(Tail(blocks), base)

extract_archive_items(content, base) ==
    IF content.rejected THEN <<>> ELSE ItemsOf(content.items, base)

\* ScrapingEngine.find_elements(content, selector): the number of matched
\* nodes; an exception while parsing or selecting gives [].
find_elements(content, selector) ==
    IF content.rejected THEN 0
    ELSE IF selector = "archive_selector" THEN Len(content.items)
    ELSE content.cnodes

\* ------------------------------------------------------------ output file
\* The output file on disk.  Absent; or in the line-delimited representation:
\* its complete lines, and frag, true when the file ends in the text of an
\* interrupted append (no newline yet); or in the array representation: the
\* array json.dump wrote; or torn: opened for rewriting ('w' truncates) and
\* the dump did not complete.
NoFile == [kind |-> "absent"]
NdjsonFile(lines, frag) == [kind |-> "ndjson", lines |-> lines, frag |-> frag]
JsonFile(arr) == [kind |-> "json", arr |-> arr]
TornFile == [kind |-> "torn"]

\* One line of a line-delimited file, by what json.loads and the id lookup
\* do with it:
\*   record   an object with an "id" key                -> id collected
\*   noid     an object without "id"                    -> nothing collected
\*   array    a JSON array not holding "id"             -> nothing collected
\*   blank    whitespace only                           -> skipped
\*   invalid  not JSON (JSONDecodeError)                -> skipped
\*   scalar   JSON null, number or boolean: "'id' in article" raises
\*            TypeError, which only the outer handler catches
RecordLine(art) == [kind |-> "record", art |-> art]
OtherLine(k) == [kind |-> k, art |-> None]
MalformedKinds == {"noid", "array", "blank", "invalid", "scalar"}

SaveOutcomes == {"ok", "open_fails", "write_fails"}

\* DataStorage._save_article_ndjson(article): open(output_file, 'a'), dump the
\* record and a newline.  open raising leaves the file as it was; a write
\* raising leaves the text written so far, without its newline; an append
\* that follows such text completes one line that is not JSON.  A file in the
\* array representation (or torn) holds no line that is a record and ends
\* without a newline, json.dump writing none.
_save_article_ndjson(file, article, outcome) ==
    LET lines == IF file.kind = "ndjson" THEN file.lines ELSE <<>>
        frag == (file.kind = "ndjson" /\ file.frag) \/ file.kind \in {"json", "torn"}
    IN  IF outcome = "open_fails" THEN [file |-> file, ret |-> FALSE]
        ELSE IF outcome = "write_fails"
        THEN [file |-> NdjsonFile(lines, TRUE), ret |-> FALSE]
        ELSE IF frag
        THEN [file |-> NdjsonFile(Append(lines, OtherLine("invalid")), FALSE), ret |-> TRUE]
        ELSE [file |-> NdjsonFile(Append(lines, RecordLine(article)), FALSE), ret |-> TRUE]

\* DataStorage._save_article_json(article): append to self._json_articles,
\* then rewrite the whole file.  The append happens before the open, so it
\* stays when the open or the dump raises.
_save_article_json(mem, file, article, outcome) ==
    LET mem2 == Append(mem, article)
    IN  IF outcome = "open_fails" THEN [mem |-> mem2, file |-> file, ret |-> FALSE]
        ELSE IF outcome = "write_fails" THEN [mem |-> mem2, file |-> TornFile, ret |-> FALSE]
        ELSE [mem |-> mem2, file |-> JsonFile(mem2), ret |-> TRUE]

\* DataStorage.save_article: dispatch on format_type.
save_article(fmt, mem, file, article, outcome) ==
    IF fmt = "ndjson"
    THEN LET r == _save_article_ndjson(file, article, outcome)
         IN  [mem |-> mem, file |-> r.file, ret |-> r.ret]
    ELSE _save_article_json(mem, file, article, outcome)

\* DataStorage._init_json: self._json_articles is the array of an existing
\* file that json.load reads as a list, else [].
_init_json(file) == IF file.kind = "json" THEN file.arr ELSE <<>>

\* The ndjson branch of get_existing_ids: the loop over the lines.  A
\* JSONDecodeError skips the line; any other exception leaves the loop and
\* the ids collected so far are returned.
RECURSIVE ScanLines(_, _)
ScanLines(lines, acc) ==
    IF lines = <<>> THEN acc
    ELSE IF Head(lines).kind = "scalar" THEN acc
    ELSE ScanLines(Tail(lines),
                   IF Head(lines).kind = "record" THEN acc \cup {Head(lines).art.id} ELSE acc)

\* DataStorage.get_existing_ids with the ledger never loaded.
get_existing_ids_empty(fmt, file) == {}

\* DataStorage.get_existing_ids(): the ids of the records of the output file,
\* read in the representation the storage is configured for.  A file in the
\* other representation has no line (ndjson reader) that parses to a record,
\* or does not load as a list (json reader).
get_existing_ids(fmt, file) ==
    IF file.kind = "absent" THEN {}
    ELSE IF fmt = "ndjson"
    THEN IF file.kind = "ndjson" THEN ScanLines(file.lines, {}) ELSE {}
    ELSE IF file.kind = "json"
         THEN {file.arr[i].id : i \in 1..Len(file.arr)}
         ELSE {}

\* DataStorage._validate_article_structure: the three required keys.
required_fields == {"id", "url", "scraped_at"}
_validate_article_structure(article) == \A f \in required_fields : f \in DOMAIN article

\* The text lines a line-by-line reader gets from the output file.  A file
\* that ends in the text of an interrupted append yields that text as a last
\* line; an array written with indent=2 has a line for each bracket, brace
\* and field (the empty array is the one line []); a torn file is cut-off
\* text.
FieldsPerRecord == 7
TextLines(file) ==
    IF file.kind = "ndjson"
    THEN file.lines \o (IF file.frag THEN <<OtherLine("invalid")>> ELSE <<>>)
    ELSE IF file.kind = "json"
    THEN IF file.arr = <<>> THEN <<OtherLine("array")>>
         ELSE [i \in 1..(2 + (FieldsPerRecord + 2) * Len(file.arr)) |-> OtherLine("invalid")]
    ELSE <<OtherLine("invalid")>>

NoCounts == [article_count |-> 0, valid_articles |-> 0, invalid_articles |-> 0]

\* DataStorage._validate_ndjson: every line that is not blank counts as an
\* article, valid when it parses and holds the required keys, else invalid.
\* On a scalar line the key test raises TypeError, which leaves the function:
\* validate_output catches it and keeps its initial counts.
RECURSIVE _validate_ndjson(_, _)
_validate_ndjson(lines, acc) ==
    IF lines = <<>> THEN acc
    ELSE LET l == Head(lines)
         IN  IF l.kind = "blank" THEN _validate_ndjson(Tail(lines), acc)
             ELSE IF l.kind = "scalar" THEN NoCounts
             ELSE IF l.kind = "record" /\ _validate_article_structure(l.art)
             THEN _validate_ndjson(Tail(lines),
                                   [acc EXCEPT !.article_count = @ + 1,
                                               !.valid_articles = @ + 1])
             ELSE _validate_ndjson(Tail(lines),
                                   [acc EXCEPT !.article_count = @ + 1,
                                               !.invalid_articles = @ + 1])

\* DataStorage._validate_json: the elements of the array, each valid or
\* invalid; a file that does not load gives an error and no counts.
_validate_json(file) ==
    IF file.kind # "json" THEN NoCounts
    ELSE LET valid == {i \in 1..Len(file.arr) : _validate_article_structure(file.arr[i])}
         IN  [article_count |-> Len(file.arr), valid_articles |-> Cardinality(valid),
              invalid_articles |-> Len(file.arr) - Cardinality(valid)]

\* DataStorage.validate_output(): the counts of the validator for the
\* configured representation.
validate_output(fmt, file) ==
    IF file.kind = "absent" THEN NoCounts
    ELSE IF fmt = "ndjson" THEN _validate_ndjson(TextLines(file), NoCounts)
    ELSE _validate_json(file)

\* ------------------------------------------------------------ engine selection
EngineNames == <<"requests", "playwright", "selenium">>
NoEngine == "NoEngine"
Unforced == "None"
ForceChoices == {Unforced, "requests", "playwright", "selenium", "bogus"}

\* What a probe's engine.get_page(url) gave: None, a page, or an exception
\* raised out of the engine (caught by test_engine's handler).
Raised == [kind |-> "raised"]

\* Outcomes of a probe fetch: no content, an exception, or a page on which
\* the probe selector matches zero or one node.
ProbePages == {Page(TRUE, r, is, c, <<>>) :
                 r \in BOOLEAN, is \in {<<>>, <<ItemBlock(None)>>}, c \in 0..1}
ProbeResults == {None, Raised} \cup ProbePages

\* WebCrawler.test_engine judging by the fetch alone.
test_engine_content_only(got, selector) == got.kind = "html"

\* WebCrawler.test_engine(engine_class, url, selector): True when get_page
\* returned content and find_elements found at least one element.
test_engine(got, selector) ==
    got.kind = "html" /\ find_elements(got, selector) > 0

\* engines_to_test: requests, then playwright and selenium when importable.
engines_to_test(avail) ==
    SelectSeq(EngineNames, LAMBDA e : e = "requests" \/ avail[e])

RECURSIVE FirstPassing(_, _, _)
FirstPassing(cands, probes, selector) ==
    IF cands = <<>> THEN NoEngine
    ELSE IF test_engine(probes[Head(cands)], selector) THEN Head(cands)
    ELSE FirstPassing(Tail(cands), probes, selector)

\* WebCrawler.choose_engine / choose_detail_engine (the two bodies differ in
\* their log messages only): a forced engine found in engine_map is
\* constructed and returned without a probe, an unknown name gives None; else
\* the first candidate whose probe passes.  probes[e] is what engine e's
\* probe fetch returns if it is made.
choose_engine(force, avail, probes, selector) ==
    IF force # Unforced
    THEN IF force \in {"requests", "playwright", "selenium"} THEN force ELSE NoEngine
    ELSE FirstPassing(engines_to_test(avail), probes, selector)

\* The engines whose probe fetch choose_engine makes: none when forced, else
\* the candidates up to and including the first that passes.
RECURSIVE ProbedUpTo(_, _, _)
ProbedUpTo(cands, probes, selector) ==
    IF cands = <<>> THEN {}
    ELSE IF test_engine(probes[Head(cands)], selector) THEN {Head(cands)}
    ELSE {Head(cands)} \cup ProbedUpTo(Tail(cands), probes, selector)

probed_engines(force, avail, probes, selector) ==
    IF force # Unforced THEN {}
    ELSE ProbedUpTo(engines_to_test(avail), probes, selector)

\* ------------------------------------------------------------ state
VARIABLES
    outFile,            \* the output file (the StorageSink) on disk
    urlsFile,           \* the URL-list handoff file on disk
    run,                \* "first" or "second" call of scrape
    pc,                 \* position inside scrape
    cfg,                \* the arguments of this call of scrape
    existing_ids,       \* the resume ledger (existing_ids in scrape)
    _json_articles,     \* DataStorage._json_articles
    stats,              \* BurmeseCorpusScraper.stats
    archive_engine,     \* BurmeseCorpusScraper.archive_engine
    detail_engine,      \* BurmeseCorpusScraper.detail_engine
    current_engine,     \* WebCrawler.current_engine
    archive_urls,       \* urls in _get_archive_urls, archive_urls in scrape
    page,               \* page in _get_archive_urls; page_num in scrape
    siteLimit,          \* the last archive page number the site serves
    all_article_urls,   \* all_article_urls in scrape
    idx,                \* URLs of the article loop consumed so far
    result,             \* what scrape returned, or the exception that left it
    cleaned,            \* WebCrawler.cleanup has been called in this run
    archiveFetched,     \* history: a request for an archive URL went out in this run
    fetched,            \* history: article URLs requested in the detail phase
    last,               \* history: the latest validation or article attempt and its outcome
    idsAtStart,         \* history: ids of the sink's records when the run began
    firstBad,           \* history: first page whose fetch gave no or short content
    prev,               \* history: summary of the first run
    input,              \* argument of a function applied on its own
    output              \* its result

runVars == <<run, pc, cfg, existing_ids, _json_articles, stats, archive_engine,
             detail_engine, current_engine, archive_urls, page, siteLimit,
             all_article_urls, idx, result, cleaned, archiveFetched, fetched, last,
             idsAtStart, firstBad, prev>>
diskVars == <<outFile, urlsFile>>
fnVars == <<input, output>>
vars == <<outFile, urlsFile, run, pc, cfg, existing_ids, _json_articles, stats,
          archive_engine, detail_engine, current_engine, archive_urls, page,
          siteLimit, all_article_urls, idx, result, cleaned, archiveFetched, fetched,
          last, idsAtStart, firstBad, prev, input, output>>

ZeroStats == [archive_pages_processed |-> 0, archive_items_found |-> 0,
              articles_processed |-> 0, articles_saved |-> 0,
              articles_skipped |-> 0, errors |-> 0]

NoUrlsFile == [kind |-> "absent"]
UrlsFile(urls) == [kind |-> "urls", total_urls |-> Len(urls), urls |-> urls]

\* A scraper that has not been asked to scrape.
RunIdle ==
    /\ run = "first"
    /\ pc = "idle"
    /\ cfg = None
    /\ existing_ids = {}
    /\ _json_articles = <<>>
    /\ stats = ZeroStats
    /\ archive_engine = NoEngine
    /\ detail_engine = NoEngine
    /\ current_engine = NoEngine
    /\ archive_urls = <<>>
    /\ page = 0
    /\ siteLimit = 0
    /\ all_article_urls = <<>>
    /\ idx = 0
    /\ result = None
    /\ cleaned = FALSE
    /\ archiveFetched = FALSE
    /\ fetched = {}
    /\ last = None
    /\ idsAtStart = {}
    /\ firstBad = 0
    /\ prev = None

\* ------------------------------------------------------------ scrape
SafetyLimit == 1000

PaginationTypes == {"none", "queryparam", "loadmore", "click", "scroll"}
\* pagination_param: None, a template with the {n} token that starts with
\* '?' ("query") or not ("path"), or text without the token ("fixed", for
\* example a button selector).
PaginationParams == {"None", "query", "path", "fixed"}

\* param = pagination_param.replace('{n}', str(page)) joined to base_url
\* (main.py 249-255): a URL that depends on the page number when the
\* template holds the token, the same URL for every page when it does not.
next_url(param, n) ==
    IF param = "query" THEN <<"archive?page=", n>>
    ELSE IF param = "path" THEN <<"archive/page/", n>>
    ELSE <<"archive+fixed", 0>>

\* The test _get_archive_urls applies to a fetched page, without the length
\* heuristic.
page_exists_any_length(got) == got # None

\* _get_archive_urls lines 258-266: the page counts when the fetch returned
\* content of at least 1000 characters.
page_exists(got) == got # None /\ got.long

\* Deduplication keeping the last occurrence of each URL.
RECURSIVE DedupKeepLast(_)
DedupKeepLast(urls) ==
    IF urls = <<>> THEN <<>>
    ELSE LET n == Len(urls)
             init == SubSeq(urls, 1, n - 1)
         IN  DedupKeepLast(SelectSeq(init, LAMBDA u : u # urls[n])) \o <<urls[n]>>

\* _save_urls_to_file lines 419-424: unique_urls, first occurrences in order.
RECURSIVE Dedup(_)
Dedup(urls) ==
    IF urls = <<>> THEN <<>>
    ELSE <<Head(urls)>> \o Dedup(SelectSeq(Tail(urls), LAMBDA u : u # Head(urls)))

\* _save_urls_to_file: the document written; open raising is caught and
\* logged and leaves the file as it was.
_save_urls_to_file(file, urls, outcome) ==
    IF outcome = "ok" THEN UrlsFile(Dedup(urls)) ELSE file

\* scrape lines 136-138: urls_data.get('urls', [])
load_urls(file) == file.urls

\* Pages an article fetch can return.
DetailPages == {Page(TRUE, r, <<>>, c, <<12>>) : r \in BOOLEAN, c \in 0..1}
\* Pages an archive fetch can return.
ItemBlocks == {ItemBlock(h) : h \in Hrefs \cup {None}}
ArchivePages == {Page(TRUE, FALSE, is, 0, <<>>) : is \in SeqsUpTo(ItemBlocks, MaxItems)}
                    \cup {Page(TRUE, TRUE, <<>>, 0, <<>>)}
\* What the probes of a run can give: no content, a page without a match, a
\* page with one.
RunProbeResults == {None, Page(TRUE, FALSE, <<>>, 0, <<>>),
                    Page(TRUE, FALSE, <<ItemBlock(None)>>, 1, <<>>)}
\* Pages the pagination test can get: short or long.
EnumPages == {Page(l, FALSE, <<>>, 0, <<>>) : l \in BOOLEAN}

\* The engines importable where the runs take place (PLAYWRIGHT_AVAILABLE,
\* SELENIUM_AVAILABLE): the selection over every combination is the subject
\* of SpecEngine.
RunAvail == [e \in {"playwright", "selenium"} |-> e = "playwright"]

\* An engine whose library is importable here.
engine_usable(e) == e = "requests" \/ (e \in DOMAIN RunAvail /\ RunAvail[e])

\* What get_page_content(url) can return with the current engine: None or a
\* page; only None from an engine whose library is missing, setup raising
\* ImportError inside get_page, which catches it (crawler.py 211-237, 377-398).
FetchResults(engine, pages) ==
    IF engine_usable(engine) THEN {None} \cup pages ELSE {None}

\* _get_results(success, error)
_get_results(success, error) == [kind |-> "results", success |-> success,
                                 error |-> error, stats |-> stats]

\* A return of scrape from inside the try block (lines 131-209): the finally
\* clause calls self.crawler.cleanup().
Return(success, error) ==
    /\ pc' = "done"
    /\ result' = [kind |-> "results", success |-> success, error |-> error,
                  stats |-> stats']
    /\ cleaned' = TRUE

\* A return of scrape before the try block is entered (lines 119 and 127).
ReturnEarly(success, error) ==
    /\ pc' = "done"
    /\ result' = [kind |-> "results", success |-> success, error |-> error,
                  stats |-> stats']
    /\ UNCHANGED cleaned

Bump(st, field, n) == [st EXCEPT ![field] = @ + n]

\* Ids of the records a reader of the output file finds in it.
SinkRecords(file) ==
    IF file.kind = "ndjson"
    THEN SelectSeq(file.lines, LAMBDA l : l.kind = "record")
    ELSE IF file.kind = "json" THEN [i \in 1..Len(file.arr) |-> RecordLine(file.arr[i])]
    ELSE <<>>
SinkIds(file) == {SinkRecords(file)[i].art.id : i \in 1..Len(SinkRecords(file))}

\* The pagination arguments of a run: type, parameter, max_pages (0: unset).
Paginations == {<<"none", "None", 0>>, <<"queryparam", "query", 0>>,
                <<"queryparam", "query", 2>>, <<"loadmore", "fixed", 0>>}

\* The arguments of scrape.  In skip-archive mode the command line sets the
\* pagination to none (main.py 856-857).
Configs ==
    {[skip_archive |-> sk, resume |-> r, force_engine |-> f, format_type |-> fmt,
      pagination_type |-> pg[1], pagination_param |-> pg[2], max_pages |-> pg[3]] :
        sk \in BOOLEAN, r \in BOOLEAN, f \in {Unforced, "requests", "bogus"},
        fmt \in {"ndjson", "json"},
        pg \in Paginations}

Init ==
    /\ RunIdle
    /\ outFile = NoFile
    /\ urlsFile \in {NoUrlsFile} \cup {UrlsFile(us) : us \in SeqsUpTo(ArticleUrls, MaxListLen)}
    /\ input = None /\ output = None

\* scrape lines 95-107: a new scraper and DataStorage for the output file; the
\* ledger is read from the file when resume is set.  Both runs use the same
\* output file in the same representation.
StartRunWith(configs) ==
    /\ pc = "idle"
    /\ \E c \in configs :
        /\ c.skip_archive => c.pagination_type = "none"
        /\ run = "second" => c.format_type = prev.format_type
        /\ cfg' = c
        /\ _json_articles' = IF c.format_type = "json" THEN _init_json(outFile) ELSE <<>>
        /\ existing_ids' = IF c.resume THEN get_existing_ids(c.format_type, outFile) ELSE {}
    /\ idsAtStart' = SinkIds(outFile)
    /\ siteLimit' = 1 + MaxSitePages
    /\ pc' = "choose_archive_engine"
    /\ UNCHANGED <<outFile, urlsFile, run, stats, archive_engine, detail_engine,
                   current_engine, archive_urls, page, all_article_urls, idx, result, cleaned,
                   archiveFetched, fetched, last, firstBad, prev, input, output>>

StartRun == StartRunWith(Configs)

\* scrape lines 112-122: the archive engine is chosen by probing the archive
\* URL with the archive selector, whatever skip_archive says.
ChooseArchiveEngine ==
    /\ pc = "choose_archive_engine"
    /\ \E probes \in [SeqToSet(EngineNames) -> RunProbeResults] :
        LET e == choose_engine(cfg.force_engine, RunAvail, probes, "archive_selector")
            probed == probed_engines(cfg.force_engine, RunAvail, probes, "archive_selector")
        IN  /\ archive_engine' = e
            /\ archiveFetched' = (archiveFetched \/ probed # {})
            /\ IF e = NoEngine
               THEN /\ stats' = stats
                    /\ ReturnEarly(FALSE, "No working scraping engine found for archive")
                    /\ UNCHANGED current_engine
               ELSE /\ current_engine' = e
                    /\ pc' = IF cfg.skip_archive THEN "load_urls" ELSE "validate"
                    /\ UNCHANGED <<stats, result, cleaned>>
    /\ UNCHANGED <<outFile, urlsFile, run, cfg, existing_ids, _json_articles,
                   detail_engine, archive_urls, page, siteLimit, all_article_urls, idx,
                   fetched, last, idsAtStart, firstBad, prev, input, output>>

\* scrape lines 125-127 with _validate_archive_page: the archive page is
\* fetched with the archive engine and must hold an archive item.
ValidateArchivePage ==
    /\ pc = "validate"
    /\ \E got \in FetchResults(current_engine, ArchivePages) :
        /\ archiveFetched' = (archiveFetched \/ engine_usable(current_engine))
        /\ last' = [kind |-> "validation", url |-> BaseUrl,
                    outcome |-> IF got = None THEN "no content"
                                ELSE IF find_elements(got, "archive_selector") = 0
                                THEN "no items" ELSE "items"]
        /\ IF got = None \/ find_elements(got, "archive_selector") = 0
           THEN /\ stats' = stats
                /\ ReturnEarly(FALSE, "Archive validation failed")
           ELSE /\ pc' = "enumerate"
                /\ UNCHANGED <<stats, result, cleaned>>
    /\ UNCHANGED <<outFile, urlsFile, run, cfg, existing_ids, _json_articles,
                   archive_engine, detail_engine, current_engine, archive_urls, page,
                   siteLimit, all_article_urls, idx, fetched, idsAtStart,
                   firstBad, prev, input, output>>

enumUnchanged == <<outFile, urlsFile, run, cfg, existing_ids, _json_articles, stats,
                   archive_engine, detail_engine, current_engine, siteLimit,
                   all_article_urls, idx, result, cleaned, fetched, idsAtStart, prev,
                   input, output>>

\* _get_archive_urls lines 236-243 and 276-287: urls = [base_url]; returned at
\* once for 'none' or without a parameter and for the types with no branch;
\* 'loadmore' appends the base URL; 'queryparam' enters the loop at page 2.
\* The warning of line 285 is logged in the 'scroll' branch, which is reached
\* only past the early return of line 238.
GetArchiveUrlsStart ==
    /\ pc = "enumerate"
    /\ firstBad' = 0
    /\ IF cfg.pagination_type = "none" \/ cfg.pagination_param = "None"
       THEN archive_urls' = <<BaseUrl>> /\ page' = 1 /\ pc' = "archive_pages"
       ELSE IF cfg.pagination_type = "queryparam"
       THEN archive_urls' = <<BaseUrl>> /\ page' = 2 /\ pc' = "enumerate_loop"
       ELSE IF cfg.pagination_type = "loadmore"
       THEN archive_urls' = <<BaseUrl, BaseUrl>> /\ page' = 1 /\ pc' = "archive_pages"
       ELSE archive_urls' = <<BaseUrl>> /\ page' = 1 /\ pc' = "archive_pages"
    /\ last' = [kind |-> "enumeration", url |-> BaseUrl,
                outcome |-> IF cfg.pagination_type = "scroll" /\ cfg.pagination_param # "None"
                            THEN "scroll warning" ELSE "no warning"]
    /\ UNCHANGED archiveFetched
    /\ UNCHANGED enumUnchanged

\* The page cap tested only once the list is already longer than the cap.
cap_reached_late(urls, max_pages) == max_pages > 0 /\ Len(urls) > max_pages

\* _get_archive_urls line 245: max_pages and max_pages > 0 and
\* len(urls) >= max_pages, tested at the top of every iteration.
cap_reached(urls, max_pages) == max_pages > 0 /\ Len(urls) >= max_pages

\* _get_archive_urls lines 244-274: one iteration of the while loop.
GetArchiveUrlsStep ==
    /\ pc = "enumerate_loop"
    /\ IF cap_reached(archive_urls, cfg.max_pages)
       THEN \* the page cap is reached before any fetch
            /\ pc' = "archive_pages" /\ page' = 1
            /\ UNCHANGED <<archive_urls, firstBad, archiveFetched>>
       ELSE \E got \in FetchResults(current_engine,
                                     IF page <= siteLimit THEN EnumPages
                                     ELSE {g \in EnumPages : ~g.long}) :
            /\ archiveFetched' = (archiveFetched \/ engine_usable(current_engine))
            /\ firstBad' = IF got = None \/ ~got.long THEN page ELSE firstBad
            /\ IF ~page_exists(got)
               THEN /\ pc' = "archive_pages" /\ page' = 1
                    /\ UNCHANGED archive_urls
               ELSE /\ archive_urls' = Append(archive_urls,
                                              next_url(cfg.pagination_param, page))
                    /\ IF page + 1 > SafetyLimit
                       THEN pc' = "archive_pages" /\ page' = 1
                       ELSE pc' = "enumerate_loop" /\ page' = page + 1
    /\ UNCHANGED <<enumUnchanged, last>>

\* _process_archive_page(collect_urls=True) lines 297-329 and 361-363: the
\* URLs of the items of the fetched page; [] when the fetch gave nothing or no
\* item was extracted.
page_urls_of(got, url) ==
    IF got = None THEN <<>>
    ELSE LET items == extract_archive_items(got, url)
         IN  [i \in 1..Len(items) |-> items[i].url]

\* scrape lines 170-190: one iteration of the loop over the archive pages;
\* the URL-list file is rewritten inside the loop, after every page.
ProcessArchivePage ==
    /\ pc = "archive_pages"
    /\ page <= Len(archive_urls)
    /\ \E got \in FetchResults(current_engine, ArchivePages), outcome \in {"ok", "open_fails"} :
        LET page_urls == page_urls_of(got, archive_urls[page])
            all == all_article_urls \o page_urls
        IN  /\ all_article_urls' = all
            /\ stats' = IF page_urls # <<>>
                        THEN Bump(Bump(stats, "archive_items_found", Len(page_urls)),
                                  "archive_pages_processed", 1)
                        ELSE Bump(stats, "errors", 1)
            /\ urlsFile' = _save_urls_to_file(urlsFile, all, outcome)
    /\ archiveFetched' = (archiveFetched \/ engine_usable(current_engine))
    /\ page' = page + 1
    /\ UNCHANGED <<outFile, run, pc, cfg, existing_ids, _json_articles, archive_engine,
                   detail_engine, current_engine, archive_urls, siteLimit, idx, result, cleaned,
                   fetched, last, idsAtStart, firstBad, prev, input, output>>

\* scrape lines 193-197 after the archive loop: the run ends; no article of
\* the collected URLs is fetched in this run.
FinishArchivePhase ==
    /\ pc = "archive_pages"
    /\ page > Len(archive_urls)
    /\ stats' = stats
    /\ Return(TRUE, "None")
    /\ UNCHANGED <<outFile, urlsFile, run, cfg, existing_ids, _json_articles,
                   archive_engine, detail_engine, current_engine, archive_urls, page,
                   siteLimit, all_article_urls, idx, archiveFetched, fetched, last,
                   idsAtStart, firstBad, prev, input, output>>

\* scrape lines 134-140: the URL list is read from the handoff file; a missing
\* file raises inside the try block and the run returns the error.
LoadUrls ==
    /\ pc = "load_urls"
    /\ IF urlsFile.kind = "absent"
       THEN /\ stats' = stats
            /\ Return(FALSE, "No such file or directory")
            /\ UNCHANGED all_article_urls
       ELSE /\ all_article_urls' = load_urls(urlsFile)
            /\ pc' = IF load_urls(urlsFile) # <<>> THEN "choose_detail_engine" ELSE "articles"
            /\ UNCHANGED <<stats, result, cleaned>>
    /\ UNCHANGED <<outFile, urlsFile, run, cfg, existing_ids, _json_articles,
                   archive_engine, detail_engine, current_engine, archive_urls, page,
                   siteLimit, idx, archiveFetched, fetched, last, idsAtStart, firstBad,
                   prev, input, output>>

\* scrape lines 143-154: the detail engine is chosen by probing the first URL
\* of the list with the content selector.
ChooseDetailEngine ==
    /\ pc = "choose_detail_engine"
    /\ \E probes \in [SeqToSet(EngineNames) -> RunProbeResults] :
        LET e == choose_engine(cfg.force_engine, RunAvail, probes, "content_selector")
        IN  /\ detail_engine' = e
            /\ IF e = NoEngine
               THEN /\ stats' = stats
                    /\ Return(FALSE, "No working scraping engine found for detail pages")
                    /\ UNCHANGED current_engine
               ELSE /\ current_engine' = e
                    /\ pc' = "articles"
                    /\ UNCHANGED <<stats, result, cleaned>>
    /\ UNCHANGED <<outFile, urlsFile, run, cfg, existing_ids, _json_articles,
                   archive_engine, archive_urls, page, siteLimit, all_article_urls, idx,
                   archiveFetched, fetched, last, idsAtStart, firstBad, prev, input,
                   output>>

\* _process_article(article_url, ..., thumbnail_url=None) lines 370-402:
\* fetch, extract, save; a record that is not falsy goes to storage, with the
\* thumbnail the caller passed, if any.  got is what get_page_content
\* returned, outcome how the write went.
_process_article(url, thumbnail_url, got, outcome, fmt, mem, file) ==
    IF got = None THEN [mem |-> mem, file |-> file, ret |-> FALSE]
    ELSE LET article == extract_article_content(got, url)
         IN  IF article = None
             THEN [mem |-> mem, file |-> file, ret |-> FALSE]
             ELSE save_article(fmt, mem, file,
                               IF thumbnail_url # None
                               THEN [article EXCEPT !.thumbnail_url = thumbnail_url]
                               ELSE article,
                               outcome)

\* _process_articles_from_urls line 457: article_id in existing_ids
ledger_hit(id, ledger) == id \in ledger

\* The counters of one iteration with a ledger hit counted as processed too.
count_article_hit_processed(st, hit, success) ==
    IF hit THEN Bump(Bump(st, "articles_skipped", 1), "articles_processed", 1)
    ELSE Bump(Bump(st, IF success THEN "articles_saved" ELSE "articles_skipped", 1),
              "articles_processed", 1)

\* _process_articles_from_urls lines 457-475: the counters of one iteration.
\* A ledger hit counts as skipped and the iteration ends (continue); else the
\* attempt counts as saved or skipped, and as processed.
count_article(st, hit, success) ==
    IF hit THEN Bump(st, "articles_skipped", 1)
    ELSE Bump(Bump(st, IF success THEN "articles_saved" ELSE "articles_skipped", 1),
              "articles_processed", 1)

\* _process_articles_from_urls lines 453-475: one iteration of the loop over
\* the URLs.
ProcessArticleFromUrls ==
    /\ pc = "articles"
    /\ idx < Len(all_article_urls)
    /\ idx' = idx + 1
    /\ LET url == all_article_urls[idx + 1]
           id == generate_id(url)
       IN  IF ledger_hit(id, existing_ids)
           THEN /\ stats' = count_article(stats, TRUE, FALSE)
                /\ last' = [kind |-> "attempt", url |-> url, outcome |-> "ledger hit"]
                /\ UNCHANGED <<outFile, _json_articles, existing_ids, fetched>>
           ELSE \E got \in FetchResults(current_engine, DetailPages), outcome \in SaveOutcomes :
                \* lines 463-465: called without a thumbnail_url
                LET r == _process_article(url, None, got, outcome, cfg.format_type,
                                          _json_articles, outFile)
                IN  /\ outFile' = r.file
                    /\ _json_articles' = r.mem
                    /\ fetched' = IF engine_usable(current_engine) THEN fetched \cup {url}
                                  ELSE fetched
                    /\ existing_ids' = IF r.ret THEN existing_ids \cup {id} ELSE existing_ids
                    /\ stats' = count_article(stats, FALSE, r.ret)
                    /\ last' = [kind |-> "attempt", url |-> url,
                                outcome |-> IF got = None THEN "no content"
                                            ELSE IF got.rejected THEN "extraction raised"
                                            ELSE IF got.cnodes = 0 THEN "selector miss"
                                            ELSE "extracted"]
    /\ UNCHANGED <<urlsFile, run, pc, cfg, archive_engine, detail_engine, current_engine,
                   archive_urls, page, siteLimit, all_article_urls, result, cleaned,
                   archiveFetched, idsAtStart, firstBad, prev, input, output>>

\* scrape lines 193-197 after _process_articles_from_urls.
FinishArticles ==
    /\ pc = "articles"
    /\ idx = Len(all_article_urls)
    /\ stats' = stats
    /\ Return(TRUE, "None")
    /\ UNCHANGED <<outFile, urlsFile, run, cfg, existing_ids, _json_articles,
                   archive_engine, detail_engine, current_engine, archive_urls, page,
                   siteLimit, all_article_urls, idx, archiveFetched, fetched, last,
                   idsAtStart, firstBad, prev, input, output>>

\* The operator interrupts the run (KeyboardInterrupt raised in the main
\* thread).  Lines 109-129 of scrape (engine choice and archive validation)
\* lie before the try statement of line 131: there the exception leaves
\* scrape, no handler and no finally clause being in force.  Inside the try
\* block it is caught at line 199 and the finally clause runs the cleanup.
Interrupt ==
    /\ pc \in {"choose_archive_engine", "validate", "enumerate", "enumerate_loop",
               "archive_pages", "load_urls", "choose_detail_engine", "articles"}
    /\ stats' = stats
    /\ IF pc \in {"choose_archive_engine", "validate"}
       THEN /\ pc' = "done"
            /\ result' = [kind |-> "raised", success |-> FALSE,
                          error |-> "KeyboardInterrupt", stats |-> stats]
            /\ UNCHANGED cleaned
       ELSE Return(FALSE, "Interrupted by user")
    /\ UNCHANGED <<outFile, urlsFile, run, cfg, existing_ids, _json_articles,
                   archive_engine, detail_engine, current_engine, archive_urls, page,
                   siteLimit, all_article_urls, idx, archiveFetched, fetched, last,
                   idsAtStart, firstBad, prev, input, output>>

\* The command is run again: a new process, the files as the first run left
\* them.
NextRun ==
    /\ pc = "done" /\ run = "first"
    /\ run' = "second"
    /\ prev' = [kind |-> "run", format_type |-> cfg.format_type, resume |-> cfg.resume,
                skip_archive |-> cfg.skip_archive,
                unique |-> (Dedup(all_article_urls) = all_article_urls)]
    /\ pc' = "idle"
    /\ cfg' = None
    /\ existing_ids' = {}
    /\ _json_articles' = <<>>
    /\ stats' = ZeroStats
    /\ archive_engine' = NoEngine
    /\ detail_engine' = NoEngine
    /\ current_engine' = NoEngine
    /\ archive_urls' = <<>>
    /\ page' = 0
    /\ siteLimit' = 0
    /\ all_article_urls' = <<>>
    /\ idx' = 0
    /\ result' = None
    /\ cleaned' = FALSE
    /\ archiveFetched' = FALSE
    /\ fetched' = {}
    /\ last' = None
    /\ idsAtStart' = {}
    /\ firstBad' = 0
    /\ UNCHANGED <<outFile, urlsFile, input, output>>

Next ==
    \/ StartRun
    \/ ChooseArchiveEngine
    \/ ValidateArchivePage
    \/ GetArchiveUrlsStart
    \/ GetArchiveUrlsStep
    \/ ProcessArchivePage
    \/ FinishArchivePhase
    \/ LoadUrls
    \/ ChooseDetailEngine
    \/ ProcessArticleFromUrls
    \/ FinishArticles
    \/ Interrupt
    \/ NextRun

Spec == Init /\ [][Next]_vars

\* -- one run of scrape, interrupts included
NextCounters ==
    \/ StartRun
    \/ ChooseArchiveEngine
    \/ ValidateArchivePage
    \/ GetArchiveUrlsStart
    \/ GetArchiveUrlsStep
    \/ ProcessArchivePage
    \/ FinishArchivePhase
    \/ LoadUrls
    \/ ChooseDetailEngine
    \/ ProcessArticleFromUrls
    \/ FinishArticles
    \/ Interrupt

SpecCounters == Init /\ [][NextCounters]_vars

\* -- runs with a forced engine: one that is importable, one whose library is
\* missing, and a name engine_map does not hold
ForcedConfigs ==
    {[skip_archive |-> sk, resume |-> r, force_engine |-> f, format_type |-> fmt,
      pagination_type |-> pg[1], pagination_param |-> pg[2], max_pages |-> pg[3]] :
        sk \in BOOLEAN, r \in BOOLEAN, f \in {"requests", "selenium", "bogus"},
        fmt \in {"ndjson", "json"},
        pg \in Paginations}

StartForcedRun == StartRunWith(ForcedConfigs)

NextForced ==
    \/ StartForcedRun
    \/ ChooseArchiveEngine
    \/ ValidateArchivePage
    \/ GetArchiveUrlsStart
    \/ GetArchiveUrlsStep
    \/ ProcessArchivePage
    \/ FinishArchivePhase
    \/ LoadUrls
    \/ ChooseDetailEngine
    \/ ProcessArticleFromUrls
    \/ FinishArticles
    \/ Interrupt
    \/ NextRun

SpecForced == Init /\ [][NextForced]_vars

\* -- two runs in skip-archive mode with resume, over a URL list as the
\* archive phase writes it (no URL twice)
InitResume ==
    /\ RunIdle
    /\ outFile = NoFile
    /\ urlsFile \in {NoUrlsFile} \cup
                    {UrlsFile(us) : us \in {l \in SeqsUpTo(ArticleUrls, MaxListLen) :
                                              Dedup(l) = l}}
    /\ input = None /\ output = None

StartResumeRun == StartRunWith({c \in Configs : c.skip_archive /\ c.resume})

NextResume ==
    \/ StartResumeRun
    \/ ChooseArchiveEngine
    \/ LoadUrls
    \/ ChooseDetailEngine
    \/ ProcessArticleFromUrls
    \/ FinishArticles
    \/ NextRun

SpecResume == InitResume /\ [][NextResume]_vars

\* -- an archive run that writes the URL-list file, then a skip-archive run
\* that reads it
InitHandoff ==
    /\ RunIdle
    /\ outFile = NoFile
    /\ urlsFile = NoUrlsFile
    /\ input = None /\ output = None

StartHandoffRun == StartRunWith({c \in Configs : c.skip_archive = (run = "second")})

NextHandoff ==
    \/ StartHandoffRun
    \/ ChooseArchiveEngine
    \/ ValidateArchivePage
    \/ GetArchiveUrlsStart
    \/ GetArchiveUrlsStep
    \/ ProcessArchivePage
    \/ FinishArchivePhase
    \/ LoadUrls
    \/ ChooseDetailEngine
    \/ ProcessArticleFromUrls
    \/ FinishArticles
    \/ NextRun

SpecHandoff == InitHandoff /\ [][NextHandoff]_vars

\* -- _get_archive_urls on its own, over the pagination arguments and sites
\* that serve few pages or pages without end
PageConfigs ==
    {[skip_archive |-> FALSE, resume |-> FALSE, force_engine |-> Unforced,
      format_type |-> "ndjson", pagination_type |-> pt, pagination_param |-> pp,
      max_pages |-> mp] :
        pt \in PaginationTypes, pp \in PaginationParams, mp \in 0..MaxEnumPages}

InitPages ==
    /\ run = "first"
    /\ pc = "enumerate"
    /\ cfg \in PageConfigs
    /\ siteLimit \in (1..MaxEnumPages) \cup {SafetyLimit + 1}
    /\ existing_ids = {}
    /\ _json_articles = <<>>
    /\ stats = ZeroStats
    /\ archive_engine = "requests"
    /\ detail_engine = NoEngine
    /\ current_engine = "requests"
    /\ archive_urls = <<>>
    /\ page = 0
    /\ all_article_urls = <<>>
    /\ idx = 0
    /\ result = None
    /\ cleaned = FALSE
    /\ archiveFetched = FALSE
    /\ fetched = {}
    /\ last = None
    /\ idsAtStart = {}
    /\ firstBad = 0
    /\ prev = None
    /\ outFile = NoFile /\ urlsFile = NoUrlsFile
    /\ input = None /\ output = None

SpecPages == InitPages /\ [][GetArchiveUrlsStart \/ GetArchiveUrlsStep]_vars

\* The loop of _get_archive_urls is sequential code: an enabled iteration is
\* eventually executed.
SpecPagesLive ==
    /\ SpecPages
    /\ WF_vars(GetArchiveUrlsStart)
    /\ WF_vars(GetArchiveUrlsStep)

\* ------------------------------------------------------------ functions applied on their own
Pending == [kind |-> "pending"]

\* -- get_existing_ids over output files
RecordLines == {RecordLine(Article(u, None, RawHtml)) : u \in ArticleUrls}
Lines == RecordLines \cup {OtherLine(k) : k \in MalformedKinds}
NdjsonFiles == {NdjsonFile(ls, f) : ls \in SeqsUpTo(Lines, MaxLines), f \in BOOLEAN}
JsonFiles == {JsonFile(a) : a \in SeqsUpTo({Article(u, None, RawHtml) : u \in ArticleUrls}, 2)}

InitIds ==
    /\ RunIdle
    /\ outFile = NoFile /\ urlsFile = NoUrlsFile
    /\ input \in {[format_type |-> f, file |-> x] :
                    f \in {"ndjson", "json"},
                    x \in NdjsonFiles \cup JsonFiles \cup {NoFile, TornFile}}
    /\ output = Pending

GetExistingIdsCall ==
    /\ output = Pending
    /\ output' = [kind |-> "ids", ids |-> get_existing_ids(input.format_type, input.file)]
    /\ UNCHANGED <<runVars, diskVars, input>>

SpecIds == InitIds /\ [][GetExistingIdsCall]_vars

\* -- extract_article_content over pages
TitleLens == {3, 12}
ArticlePages == {Page(l, r, <<>>, c, t) :
                   l \in BOOLEAN, r \in BOOLEAN, c \in 0..2, t \in SeqsUpTo(TitleLens, 2)}

InitExtract ==
    /\ RunIdle
    /\ outFile = NoFile /\ urlsFile = NoUrlsFile
    /\ input \in {[content |-> c, url |-> u] : c \in ArticlePages, u \in ArticleUrls}
    /\ output = Pending

ExtractArticleContentCall ==
    /\ output = Pending
    /\ output' = [kind |-> "returned", ret |-> extract_article_content(input.content, input.url)]
    /\ UNCHANGED <<runVars, diskVars, input>>

SpecExtract == InitExtract /\ [][ExtractArticleContentCall]_vars

\* -- choose_engine / choose_detail_engine over probe outcomes

InitEngine ==
    /\ RunIdle
    /\ outFile = NoFile /\ urlsFile = NoUrlsFile
    /\ input \in {[force |-> f, avail |-> a, probes |-> p] :
                    f \in {Unforced, "selenium", "bogus"},
                    a \in [{"playwright", "selenium"} -> BOOLEAN],
                    p \in [{"requests", "playwright", "selenium"} -> ProbeResults]}
    /\ output = Pending

ChooseEngineCall ==
    /\ output = Pending
    /\ output' = [kind |-> "engine", selector |-> "archive_selector",
                  engine |-> choose_engine(input.force, input.avail, input.probes,
                                           "archive_selector")]
    /\ UNCHANGED <<runVars, diskVars, input>>

ChooseDetailEngineCall ==
    /\ output = Pending
    /\ output' = [kind |-> "engine", selector |-> "content_selector",
                  engine |-> choose_engine(input.force, input.avail, input.probes,
                                           "content_selector")]
    /\ UNCHANGED <<runVars, diskVars, input>>

SpecEngine == InitEngine /\ [][ChooseEngineCall \/ ChooseDetailEngineCall]_vars

\* -- validate_selector_format over selector strings
\* A selector is a sequence of characters: a blank, a letter, the class dot,
\* the child combinator and the slash of a path expression.
SelectorChars == {" ", "d", ".", ">", "/"}

\* str.strip(): leading and trailing whitespace removed.
RECURSIVE LStrip(_)
LStrip(str) == IF str # <<>> /\ Head(str) = " " THEN LStrip(Tail(str)) ELSE str
RECURSIVE RStrip(_)
RStrip(str) == IF str # <<>> /\ str[Len(str)] = " " THEN RStrip(SubSeq(str, 1, Len(str) - 1))
               ELSE str
strip(str) == RStrip(LStrip(str))

\* utils.validate_selector_format(selector): False for an empty or blank
\* selector; the stripped selector is then tested for a length below 1 only.
validate_selector_format(selector) ==
    IF selector = <<>> \/ strip(selector) = <<>> THEN FALSE
    ELSE IF Len(strip(selector)) < 1 THEN FALSE
    ELSE TRUE

InitSelector ==
    /\ RunIdle
    /\ outFile = NoFile /\ urlsFile = NoUrlsFile
    /\ input \in {[selector |-> sel] : sel \in SeqsUpTo(SelectorChars, MaxSelLen)}
    /\ output = Pending

ValidateSelectorFormatCall ==
    /\ output = Pending
    /\ output' = [kind |-> "valid", ret |-> validate_selector_format(input.selector)]
    /\ UNCHANGED <<runVars, diskVars, input>>

SpecSelector == InitSelector /\ [][ValidateSelectorFormatCall]_vars

\* -- the load-more fetch of an archive page: _process_archive_page calling
\* WebCrawler.get_page_with_pagination
MaxCapPages == 4        \* largest max_pages given to scrape (0: unset)
MaxButtonShows == 11    \* checks at which the site may still show the button
DefaultClicks == 10
DefaultLoadMorePages == 3

\* _process_archive_page line 301: the third argument is max_pages or 3.
load_more_arg(max_pages) == IF max_pages # 0 THEN max_pages ELSE DefaultLoadMorePages

\* get_page_with_pagination line 691: max_pages - 1 if max_pages else 10.
max_clicks_of(max_pages) == IF max_pages # 0 THEN max_pages - 1 ELSE DefaultClicks

\* The site shows the button at the first input.shows checks; has_page says
\* whether the current engine holds a browser page.
InitLoadMore ==
    /\ RunIdle
    /\ outFile = NoFile /\ urlsFile = NoUrlsFile
    /\ input \in [max_pages : 0..MaxCapPages, has_page : BOOLEAN, shows : 0..MaxButtonShows]
    /\ output = Pending

\* _process_archive_page lines 299-301 and get_page_with_pagination lines
\* 666-691: without a browser page the call falls back to get_page_content;
\* with one it computes max_clicks and enters the loop.
GetPageWithPaginationStart ==
    /\ output = Pending
    /\ output' = IF ~input.has_page
                 THEN [kind |-> "loadmore", pos |-> "returned", max_clicks |-> 0,
                       clicks_performed |-> 0, stop |-> "fallback", returns |-> 1]
                 ELSE [kind |-> "loadmore", pos |-> "loop",
                       max_clicks |-> max_clicks_of(load_more_arg(input.max_pages)),
                       clicks_performed |-> 0, stop |-> "none", returns |-> 0]
    /\ UNCHANGED <<runVars, diskVars, input>>

\* get_page_with_pagination lines 694-733: one test of the while condition
\* and, when it holds, one iteration; on leaving the loop the content of the
\* page is returned.  An exception in the check or the click breaks before
\* the count, one in the wait after the click breaks after it.
GetPageWithPaginationStep ==
    /\ output.kind = "loadmore" /\ output.pos = "loop"
    /\ IF ~(output.clicks_performed < output.max_clicks)
       THEN output' = [output EXCEPT !.pos = "returned", !.stop = "limit", !.returns = @ + 1]
       ELSE \E raised \in {"none", "evaluate", "wait"} :
            IF raised = "evaluate"
            THEN output' = [output EXCEPT !.pos = "returned", !.stop = "error",
                                          !.returns = @ + 1]
            ELSE IF ~(output.clicks_performed < input.shows)
            THEN output' = [output EXCEPT !.pos = "returned", !.stop = "absent",
                                          !.returns = @ + 1]
            ELSE IF raised = "wait"
            THEN output' = [output EXCEPT !.clicks_performed = @ + 1, !.pos = "returned",
                                          !.stop = "error", !.returns = @ + 1]
            ELSE output' = [output EXCEPT !.clicks_performed = @ + 1]
    /\ UNCHANGED <<runVars, diskVars, input>>

SpecLoadMore ==
    InitLoadMore /\ [][GetPageWithPaginationStart \/ GetPageWithPaginationStep]_vars

\* -- get_page of the browser engines (PlaywrightEngine.get_page_async and
\* SeleniumEngine.get_page have the same structure), called repeatedly on one
\* engine object
MaxCalls == 3           \* get_page calls made on one engine object

\* The browser the engine object holds: "none" before any setup, "headless"
\* or "visible" after setup / setup_visible, "closed" when cleanup() closed
\* it and no new one was set up (cleanup does not reset self.page /
\* self.driver).
BrowserModes == {"none", "headless", "visible", "closed"}
CallOutcomes == [setup : {"ok", "raises"}, first : {"ok", "raises"},
                 setup_visible : {"ok", "raises"}, second : {"ok", "raises"}]

\* One call of get_page on an engine holding a browser in the given mode.
\* The result names the modes in which a navigation was attempted, in
\* order, what was returned, and the browser held afterwards.
get_page(mode, available, o) ==
    LET \* try block: setup() when no browser is held, then the navigation
        held == IF mode # "none" THEN mode
                ELSE IF available /\ o.setup = "ok" THEN "headless" ELSE "none"
        first == IF held = "none" THEN <<>> ELSE <<held>>
        firstOk == held \in {"headless", "visible"} /\ o.first = "ok"
        \* except block: cleanup(), setup_visible(), the navigation again
        afterCleanup == IF held = "none" THEN "none" ELSE "closed"
        visibleUp == available /\ o.setup_visible = "ok"
    IN  IF firstOk
        THEN [attempts |-> first, ret |-> "content", raised |-> FALSE, mode |-> held]
        ELSE IF ~visibleUp
        THEN [attempts |-> first, ret |-> "None", raised |-> FALSE, mode |-> afterCleanup]
        ELSE [attempts |-> Append(first, "visible"),
              ret |-> IF o.second = "ok" THEN "content" ELSE "None",
              raised |-> FALSE, mode |-> "visible"]

InitBrowser ==
    /\ RunIdle
    /\ outFile = NoFile /\ urlsFile = NoUrlsFile
    /\ input \in [engine : {"playwright", "selenium"}, available : BOOLEAN]
    /\ output = [kind |-> "browser", mode |-> "none", calls |-> <<>>]

BrowserGetPage ==
    /\ output.kind = "browser"
    /\ Len(output.calls) < MaxCalls
    /\ \E o \in CallOutcomes :
        LET r == get_page(output.mode, input.available, o)
        IN  output' = [kind |-> "browser", mode |-> r.mode,
                       calls |-> Append(output.calls,
                                        [before |-> output.mode, attempts |-> r.attempts,
                                         ret |-> r.ret, raised |-> r.raised])]
    /\ UNCHANGED <<runVars, diskVars, input>>

SpecBrowser == InitBrowser /\ [][BrowserGetPage]_vars

\* -- WebCrawler.check_robots_txt called repeatedly on one crawler
MaxRobotsCalls == 3     \* check_robots_txt calls made on one crawler
Domains == {"site.test", "cdn.test"}

\* What RobotFileParser.read() does with the answer to the request for
\* robots.txt: it parses the rules, sets allow_all on a 4xx status, sets
\* disallow_all on 401/403, and lets every other error (no route, timeout,
\* undecodable body) propagate.
ReadOutcomes == {"rules", "allow_all", "disallow_all", "raises"}

\* can_fetch of a cached parser for a URL the rules allow or not.
can_fetch(parser, allowed) ==
    IF parser = "allow_all" THEN TRUE
    ELSE IF parser = "disallow_all" THEN FALSE
    ELSE allowed

InitRobots ==
    /\ RunIdle
    /\ outFile = NoFile /\ urlsFile = NoUrlsFile
    /\ input \in [respect_robots : BOOLEAN]
    /\ output = [kind |-> "robots", robots_cache |-> [d \in Domains |-> "absent"],
                 fetches |-> [d \in Domains |-> 0], calls |-> 0, last |-> None]

\* check_robots_txt lines 474-493: True without any lookup when
\* respect_robots is off; otherwise the parser of the domain is fetched when
\* the cache has none and stored only after read() returned, and every
\* exception gives True.
CheckRobotsTxt ==
    /\ output.kind = "robots"
    /\ output.calls < MaxRobotsCalls
    /\ \E d \in Domains, read \in ReadOutcomes, allowed \in BOOLEAN :
        IF ~input.respect_robots
        THEN output' = [output EXCEPT !.calls = @ + 1,
                                      !.last = [domain |-> d, fetched |-> FALSE,
                                                raised |-> FALSE, ret |-> TRUE]]
        ELSE IF output.robots_cache[d] # "absent"
        THEN output' = [output EXCEPT !.calls = @ + 1,
                                      !.last = [domain |-> d, fetched |-> FALSE,
                                                raised |-> FALSE,
                                                ret |-> can_fetch(output.robots_cache[d],
                                                                  allowed)]]
        ELSE IF read = "raises"
        THEN output' = [output EXCEPT !.calls = @ + 1,
                                      !.fetches[d] = @ + 1,
                                      !.last = [domain |-> d, fetched |-> TRUE,
                                                raised |-> TRUE, ret |-> TRUE]]
        ELSE output' = [output EXCEPT !.calls = @ + 1,
                                      !.fetches[d] = @ + 1,
                                      !.robots_cache[d] = read,
                                      !.last = [domain |-> d, fetched |-> TRUE,
                                                raised |-> FALSE,
                                                ret |-> can_fetch(read, allowed)]]
    /\ UNCHANGED <<runVars, diskVars, input>>

SpecRobots == InitRobots /\ [][CheckRobotsTxt]_vars

\* -- the title of an archive item (_extract_single_archive_item lines 93-104)
MaxTextLen == 2         \* length of the cleaned text of an element of a block
title_selectors == <<"h1", "h2", "h3", ".title", ".headline", ".post-title", ".article-title">>

\* The title starts as the cleaned text of the link; the selectors are tried
\* in order, and the first one whose first match has a non-empty text longer
\* than the current title replaces it and ends the loop.  texts[i] is the
\* length of the cleaned text of the first match of title_selectors[i], 0
\* when nothing matches or the text is empty.
RECURSIVE item_title(_, _, _)
item_title(title, texts, i) ==
    IF i > Len(title_selectors) THEN title
    ELSE IF texts[i] > 0 /\ texts[i] > title.len
    THEN [src |-> title_selectors[i], len |-> texts[i]]
    ELSE item_title(title, texts, i + 1)

InitTitle ==
    /\ RunIdle
    /\ outFile = NoFile /\ urlsFile = NoUrlsFile
    /\ input \in [anchor : 0..MaxTextLen,
                   texts : [1..Len(title_selectors) -> 0..MaxTextLen]]
    /\ output = Pending

ExtractItemTitleCall ==
    /\ output = Pending
    /\ output' = [kind |-> "title",
                  title |-> item_title([src |-> "a", len |-> input.anchor], input.texts, 1)]
    /\ UNCHANGED <<runVars, diskVars, input>>

SpecTitle == InitTitle /\ [][ExtractItemTitleCall]_vars

\* -- the fetching entry points of one WebCrawler and the robots check:
\* test_engine, get_page_content, get_page_with_pagination
CrawlUrls == {BaseUrl, <<"article", 1>>}

\* check_robots_txt(url) as the entry points see it: True when checking is
\* off, when the lookup raised, or when the rules allow the URL.
robots_allows(respect_robots, policy, url, raised) ==
    ~respect_robots \/ raised \/ policy[url]

\* get_page_content lines 654-664 on a crawler with an engine: the robots
\* check, then the fetch by the current engine when the check allowed it.
\* c.allowed holds the URLs check_robots_txt has returned True for,
\* c.fetches the requests engines made, each with whether its URL had been
\* allowed before.
get_page_content(c, url, ok) ==
    IF ok
    THEN [c EXCEPT !.allowed = @ \cup {url},
                   !.fetches = @ \cup {[url |-> url, via |-> "get_page_content",
                                         allowed |-> TRUE]}]
    ELSE c

InitCrawler ==
    /\ RunIdle
    /\ outFile = NoFile /\ urlsFile = NoUrlsFile
    /\ input \in [respect_robots : BOOLEAN, policy : [CrawlUrls -> BOOLEAN]]
    /\ output = [kind |-> "crawler", allowed |-> {}, fetches |-> {}]

\* test_engine lines 495-522: a new engine object fetches the URL with
\* engine.get_page, without check_robots_txt.
TestEngineCall ==
    /\ output.kind = "crawler"
    /\ \E url \in CrawlUrls :
        output' = [output EXCEPT !.fetches = @ \cup {[url |-> url, via |-> "test_engine",
                                                      allowed |-> url \in output.allowed]}]
    /\ UNCHANGED <<runVars, diskVars, input>>

GetPageContentCall ==
    /\ output.kind = "crawler"
    /\ \E url \in CrawlUrls, raised \in BOOLEAN :
        output' = get_page_content(output, url,
                                   robots_allows(input.respect_robots, input.policy,
                                                 url, raised))
    /\ UNCHANGED <<runVars, diskVars, input>>

\* get_page_with_pagination lines 666-752: without a browser page the call
\* is get_page_content; with one, the page navigates to the URL when it is
\* not there already, without check_robots_txt, and an exception anywhere
\* in the pagination falls back to get_page_content.
GetPageWithPaginationCall ==
    /\ output.kind = "crawler"
    /\ \E url \in CrawlUrls, has_page \in BOOLEAN, at_url \in BOOLEAN,
          raises \in BOOLEAN, raised \in BOOLEAN :
        LET ok == robots_allows(input.respect_robots, input.policy, url, raised)
            wentTo == [output EXCEPT !.fetches = @ \cup
                          {[url |-> url, via |-> "get_page_with_pagination",
                            allowed |-> url \in output.allowed]}]
        IN  output' = IF ~has_page THEN get_page_content(output, url, ok)
                      ELSE IF at_url
                      THEN (IF raises THEN get_page_content(output, url, ok) ELSE output)
                      ELSE (IF raises THEN get_page_content(wentTo, url, ok) ELSE wentTo)
    /\ UNCHANGED <<runVars, diskVars, input>>

SpecCrawler ==
    InitCrawler /\ [][TestEngineCall \/ GetPageContentCall \/ GetPageWithPaginationCall]_vars

\* -- runs with resume over an output file that exists before the first run,
\* written earlier in either representation
ExistingFiles ==
    {NdjsonFile(<<RecordLine(Article(u, None, RawHtml))>>, FALSE) : u \in ArticleUrls}
        \cup {JsonFile(<<Article(u, None, RawHtml)>>) : u \in ArticleUrls}
        \cup {TornFile}

InitExisting ==
    /\ RunIdle
    /\ outFile \in ExistingFiles
    /\ urlsFile \in {NoUrlsFile} \cup
                    {UrlsFile(us) : us \in {l \in SeqsUpTo(ArticleUrls, MaxListLen) :
                                              Dedup(l) = l}}
    /\ input = None /\ output = None

SpecExisting == InitExisting /\ [][NextResume]_vars

\* ------------------------------------------------------------ claims on the functions
RecordIds(lines) == {lines[i].art.id : i \in {j \in 1..Len(lines) : lines[j].kind = "record"}}

\* C4: reloading the resume ids of a line-delimited file yields exactly the
\* ids of its records, whatever malformed lines lie among them.
C4_ReloadYieldsAllIds ==
    (output.kind = "ids" /\ input.format_type = "ndjson" /\ input.file.kind = "ndjson")
        => output.ids = RecordIds(input.file.lines)

\* C5: without a forced engine the selection returns the first candidate, in
\* the order requests, playwright, selenium restricted to the available ones,
\* whose probe fetched content and located at least one element, and no
\* engine when no candidate does.
C5_Candidate(e) == e = "requests" \/ input.avail[e]
C5_Qualifies(e, selector) ==
    /\ C5_Candidate(e)
    /\ input.probes[e].kind = "html"
    /\ find_elements(input.probes[e], selector) >= 1
C5_Pos(e) == CHOOSE i \in 1..Len(EngineNames) : EngineNames[i] = e
C5_FirstQualifyingEngine ==
    (output.kind = "engine" /\ input.force = Unforced) =>
        LET q == {e \in SeqToSet(EngineNames) : C5_Qualifies(e, output.selector)}
        IN  IF q = {} THEN output.engine = NoEngine
            ELSE /\ output.engine \in q
                 /\ \A e \in q : C5_Pos(output.engine) <= C5_Pos(e)

\* C5 witness: the first candidate returned no content and the second one,
\* which found an element, was selected.
C5_SecondEngineSelected ==
    /\ output.kind = "engine" /\ input.force = Unforced
    /\ input.probes["requests"] = None
    /\ output.engine = "playwright"

C7_Populated(a, url) ==
    /\ a.kind = "article"
    /\ a.id = generate_id(url) /\ a.url = url
    /\ a.source_url = source_url_of(url) /\ a.scraped_date = Today

RECURSIVE Count(_, _)
Count(seq, x) == IF seq = <<>> THEN 0
                 ELSE (IF Head(seq) = x THEN 1 ELSE 0) + Count(Tail(seq), x)

RecordIdSeq(file) == [i \in 1..Len(SinkRecords(file)) |-> SinkRecords(file)[i].art.id]
NoIdTwice(file) == \A id \in SinkIds(file) : Count(RecordIdSeq(file), id) = 1

\* C1: after the second of two runs with resume over the same sink, every id
\* in the sink is there exactly once, and when every URL of the second run
\* already had its record in the sink the second run saved nothing.
C1_ResumeStoresEachIdOnce ==
    (run = "second" /\ pc = "done" /\ cfg.resume /\ prev.resume /\ prev.unique
       /\ Dedup(all_article_urls) = all_article_urls) =>
        /\ NoIdTwice(outFile)
        /\ (\A u \in SeqToSet(all_article_urls) : generate_id(u) \in idsAtStart)
              => stats.articles_saved = 0

\* C1 witness: a second run over two URLs, both stored by the first run, has
\* ended with nothing saved and both skipped.
C1_SecondRunSavedNothing ==
    /\ run = "second" /\ pc = "done" /\ cfg.resume /\ prev.resume
    /\ result.success
    /\ Len(all_article_urls) = 2
    /\ \A u \in SeqToSet(all_article_urls) : generate_id(u) \in idsAtStart
    /\ stats.articles_saved = 0 /\ stats.articles_skipped = 2

\* C2: within a single run the sink receives at most one record per id,
\* whatever the URL list (repeats included) and the fetch, extraction and save
\* outcomes.
C2_AtMostOneRecordPerId ==
    run = "first" => NoIdTwice(outFile)

\* C3: when a run that performs the archive phase returns, every collected
\* stub URL whose id is not in the ledger has been fetched in the detail
\* phase.
C3_CollectedUrlsFetched ==
    (pc = "done" /\ ~cfg.skip_archive /\ result.success) =>
        \A u \in SeqToSet(all_article_urls) :
            generate_id(u) \notin existing_ids => u \in fetched

\* C6: in QUERY_PARAM mode the enumeration is the base URL followed by the
\* template-substituted URLs of pages 2, 3, ... in order, and once the fetch
\* of a page k has returned no content or short content the enumeration has
\* ended with exactly the pages before k.
C6_PagesBeforeFirstBad ==
    (pc \in {"enumerate_loop", "archive_pages"} /\ cfg.pagination_type = "queryparam"
       /\ cfg.pagination_param # "None") =>
        /\ archive_urls = [i \in 1..Len(archive_urls) |->
                             IF i = 1 THEN BaseUrl ELSE next_url(cfg.pagination_param, i)]
        /\ firstBad # 0 => (pc = "archive_pages" /\ Len(archive_urls) = firstBad - 1)

\* C6 witness: page 4 returned no or short content and the enumeration ended
\* with 3 URLs.
C6_StoppedAtPageFour ==
    /\ pc = "archive_pages" /\ cfg.pagination_type = "queryparam"
    /\ cfg.pagination_param = "query"
    /\ firstBad = 4 /\ Len(archive_urls) = 3

\* C8: an article attempt whose fetch returned no content or whose extraction
\* failed (selector miss or exception) writes nothing to the sink, does not
\* count as saved and adds no id to the ledger.
C8_FailedAttemptNeverStored ==
    [][(idx' = idx + 1
          /\ last'.outcome \in {"no content", "selector miss", "extraction raised"})
        => (outFile' = outFile /\ stats'.articles_saved = stats.articles_saved
              /\ existing_ids' = existing_ids)]_vars

FirstIndex(seq, x) == CHOOSE i \in 1..Len(seq) : seq[i] = x /\ \A j \in 1..(i - 1) : seq[j] # x

\* C9: every write of the URL-list file writes the collected URLs with the
\* repeats after the first occurrence removed, in first-collected order, and
\* total_urls is their number; a skip-archive run processes the URLs of the
\* file in the file's order.
C9_HandoffKeepsFirstCollectedOrder ==
    [][/\ urlsFile' # urlsFile =>
            LET us == urlsFile'.urls
            IN  /\ SeqToSet(us) = SeqToSet(all_article_urls')
                /\ \A i, j \in 1..Len(us) :
                     i < j => FirstIndex(all_article_urls', us[i])
                                < FirstIndex(all_article_urls', us[j])
                /\ urlsFile'.total_urls = Len(us)
       /\ (pc = "articles" /\ idx' = idx + 1) => last'.url = urlsFile.urls[idx']
      ]_vars

\* C9 witness: the archive run collected a URL more than once and the
\* skip-archive run that followed has processed the two URLs of the file.
C9_HandoffProcessed ==
    /\ run = "second" /\ pc = "done"
    /\ ~prev.skip_archive /\ ~prev.unique
    /\ cfg.skip_archive /\ result.success
    /\ urlsFile.kind = "urls" /\ urlsFile.total_urls = 2 /\ idx = 2

\* C10: in a run with skip_archive set and an existing URL-list file the
\* archive URL is never fetched.
C10_NoArchiveFetchWhenSkipping ==
    (pc \notin {"idle"} /\ cfg.skip_archive /\ urlsFile.kind = "urls") => ~archiveFetched

\* C11: in a run with resume over an existing output file, either the ids of
\* the file's records are in the ledger or the run has ended with an error,
\* and the records the file held stay in the file.
C11_MismatchedFileIsAnError ==
    (pc # "idle" /\ cfg.resume) =>
        /\ idsAtStart \subseteq existing_ids \/ (pc = "done" /\ ~result.success)
        /\ idsAtStart \subseteq SinkIds(outFile)

\* C12: with the array (json) representation the output file is at every
\* moment a complete array (the prior one or the new one) or not there yet;
\* a truncated or half-written file is never on disk.
C12_RewriteIsAllOrNothing ==
    (pc # "idle" /\ cfg.format_type = "json") => outFile.kind \in {"absent", "json"}

\* C13: a run in which an engine was selected and which a user interrupt
\* ended has caught the interrupt (scrape returned its result) and has run
\* the engine teardown.
C13_InterruptIsCaughtAndTornDown ==
    (pc = "done" /\ archive_engine # NoEngine
       /\ (result.kind = "raised" \/ result.error = "Interrupted by user"))
        => (result.kind = "results" /\ cleaned)

\* C14: with a forced engine the selection makes no probe fetch and the
\* engine is the named variant; and when the forced engine is unknown or its
\* library is missing no request for a page goes out and the run, when it
\* had URLs to process, ends in failure.
C14_ForcedEngineVerbatimOrFatal ==
    (pc # "idle" /\ cfg.force_engine # Unforced) =>
        /\ archive_engine \in {NoEngine, cfg.force_engine}
        /\ detail_engine \in {NoEngine, cfg.force_engine}
        /\ pc \in {"validate", "load_urls"} => ~archiveFetched
        /\ ~engine_usable(cfg.force_engine) =>
              /\ ~archiveFetched /\ fetched = {}
              /\ (pc = "done" /\ all_article_urls # <<>>) => ~result.success

\* C15: an archive page on which the archive selector matches nothing, the
\* base archive page included, does not make the run fail.
C15_ZeroItemPageIsNotFatal ==
    (pc = "done" /\ last.kind = "validation" /\ last.outcome = "no items")
        => result.error # "Archive validation failed"

\* C16: ledger hits and failures are counted by different counters: the
\* counter a ledger hit increments (articles_skipped) is not incremented by
\* an attempt whose fetch, extraction or save failed.
C16_HitsCountedApartFromFailures ==
    [][(idx' = idx + 1 /\ last'.outcome # "ledger hit"
          /\ stats'.articles_saved = stats.articles_saved)
        => stats'.articles_skipped = stats.articles_skipped]_vars

\* C17: at every moment articles_saved + articles_skipped is the number of
\* URLs the article loop has consumed, and in the archive loop
\* archive_pages_processed + errors is the number of archive pages consumed;
\* an iteration of the article loop increments articles_processed exactly
\* when the URL was not a ledger hit; and the result scrape returns carries
\* the counters as they are at the return.
C17_CountersPartitionTheWork ==
    /\ [](/\ stats.articles_saved + stats.articles_skipped = idx
          /\ stats.articles_processed <= idx
          /\ pc = "archive_pages" => stats.archive_pages_processed + stats.errors = page - 1
          /\ (pc = "done" /\ result.kind = "results") => result.stats = stats)
    /\ [][idx' = idx + 1 =>
            stats'.articles_processed = stats.articles_processed
                + (IF last'.outcome = "ledger hit" THEN 0 ELSE 1)]_vars

\* C17 witness: a run has returned after two URLs, one saved and one skipped
\* as a ledger hit.
C17_HitAndSaveCounted ==
    /\ pc = "done" /\ result.kind = "results" /\ result.success
    /\ idx = 2 /\ last.kind = "attempt" /\ last.outcome = "ledger hit"
    /\ stats.articles_saved = 1 /\ stats.articles_skipped = 1
    /\ stats.articles_processed = 1

\* A class dot directly followed by another ("div..class").
DoubledDot(sel) == \E i \in 1..(Len(sel) - 1) : sel[i] = "." /\ sel[i + 1] = "."
\* A child combinator followed, blanks apart, by another ("div > > article").
DoubledCombinator(sel) ==
    \E i, j \in 1..Len(sel) :
        /\ i < j /\ sel[i] = ">" /\ sel[j] = ">"
        /\ \A k \in (i + 1)..(j - 1) : sel[k] = " "
Blank(sel) == \A i \in 1..Len(sel) : sel[i] = " "
XPathLike(sel) == \E i \in 1..Len(sel) : sel[i] = "/"

\* C18: validate_selector_format returns False for an empty selector, a
\* blank one and one with a doubled class dot or a doubled child combinator,
\* and True for a path-like selector free of these.
C18_InvalidSelectorsRejected ==
    output.kind = "valid" =>
        LET sel == input.selector
            invalid == Blank(sel) \/ DoubledDot(sel) \/ DoubledCombinator(sel)
        IN  /\ invalid => ~output.ret
            /\ (XPathLike(sel) /\ ~invalid) => output.ret

\* The thumbnail URL of the archive item an article URL is collected from.
item_thumbnail(url) ==
    _extract_single_archive_item(ItemBlock([kind |-> "href", k |-> url[2]]),
                                 BaseUrl).thumbnail_url

\* C19: every article in the sink carries the thumbnail URL of the archive
\* item its URL was collected from, when that item had one.
C19_ThumbnailFromArchiveItem ==
    \A i \in 1..Len(SinkRecords(outFile)) :
        LET a == SinkRecords(outFile)[i].art
        IN  item_thumbnail(a.url) # None => a.thumbnail_url = item_thumbnail(a.url)

\* C20: the validator of the storage judges every record the pipeline wrote
\* structurally valid: over an output file written by the pipeline alone,
\* without a failed write, validate_output reports invalid_articles = 0.
C20_PipelineRecordsAreValid ==
    (pc # "idle" /\ outFile.kind \in {"ndjson", "json"}
       /\ Len(TextLines(outFile)) > 0
       /\ (outFile.kind = "ndjson" =>
             ~outFile.frag /\ \A i \in 1..Len(outFile.lines) : outFile.lines[i].kind = "record"))
        => validate_output(cfg.format_type, outFile).invalid_articles = 0

\* C21: the queryparam enumeration always ends, with at most max_pages URLs
\* when max_pages is positive and at most 1000 URLs whatever the cap, for
\* every template and every sequence of fetch results.
C21_EnumerationBoundedAndEnds ==
    /\ [](cfg.pagination_type = "queryparam" =>
            /\ Len(archive_urls) <= SafetyLimit
            /\ cfg.max_pages > 0 => Len(archive_urls) <= cfg.max_pages)
    /\ <>(pc = "archive_pages")

\* The enumeration over a site that never runs out of pages, without a cap,
\* has ended with the 1000 URLs of the ceiling.
C21_StoppedAtCeiling ==
    /\ pc = "archive_pages" /\ cfg.pagination_type = "queryparam"
    /\ cfg.max_pages = 0 /\ Len(archive_urls) = SafetyLimit

\* C22: in load-more mode the enumeration yields the base archive URL exactly
\* once, so that the archive page is processed once.
C22_LoadMoreYieldsBaseOnce ==
    (pc = "archive_pages" /\ cfg.pagination_type = "loadmore") =>
        archive_urls = <<BaseUrl>>

\* C23: in a load-more fetch started by _process_archive_page the clicks
\* never exceed max_pages - 1 when max_pages is set and never exceed 10 when
\* it is unset, 10 clicks being allowed then; the loop stops at the first
\* check that finds the button absent, and the content is returned once.
C23_LoadMoreClicksBounded ==
    output.kind = "loadmore" =>
        /\ input.max_pages > 0 => output.clicks_performed <= input.max_pages - 1
        /\ input.max_pages = 0 => output.clicks_performed <= DefaultClicks
        /\ (input.max_pages = 0 /\ output.stop = "limit") =>
                output.clicks_performed = DefaultClicks
        /\ output.stop = "absent" => output.clicks_performed = input.shows
        /\ output.returns <= 1

\* C24: in scroll mode _get_archive_urls yields exactly the base archive URL
\* and always logs the warning that scroll pagination is not implemented,
\* with or without a pagination parameter.
C24_ScrollYieldsBaseAndWarns ==
    (pc = "archive_pages" /\ page = 1 /\ cfg.pagination_type = "scroll") =>
        /\ archive_urls = <<BaseUrl>>
        /\ last.kind = "enumeration" /\ last.outcome = "scroll warning"

\* C25: every call of a browser engine's get_page makes at most two
\* navigation attempts; a visible-mode attempt is made only after the
\* headless attempt of that call failed, and once; no call raises.
C25_VisibleOnlyAfterHeadlessFailed ==
    output.kind = "browser" =>
        \A i \in 1..Len(output.calls) :
            LET c == output.calls[i]
            IN  /\ Len(c.attempts) <= 2
                /\ ~c.raised
                /\ \A k \in 1..Len(c.attempts) :
                        c.attempts[k] = "visible" => (k = 2 /\ c.attempts[1] = "headless")

\* C26: with robots checking on, robots.txt is requested at most once for
\* each domain, whatever the outcome of the request, and an error in
\* fetching or parsing it gives 'allow'.
C26_RobotsFetchedOncePerDomain ==
    (output.kind = "robots" /\ input.respect_robots) =>
        /\ \A d \in Domains : output.fetches[d] <= 1
        /\ (output.last # None /\ output.last.raised) => output.last.ret

\* C27: the title of an archive item is the longest non-empty candidate
\* among the text of the link and the texts matched by the title selectors:
\* no candidate of the block is strictly longer than the returned title.
C27_TitleIsLongestCandidate ==
    output.kind = "title" =>
        /\ input.anchor <= output.title.len
        /\ \A i \in 1..Len(title_selectors) : input.texts[i] <= output.title.len

\* C28: with robots checking on, an engine fetches a URL only after
\* check_robots_txt has allowed that URL, in the probes of the engine
\* selection and in load-more pagination as well as in get_page_content.
C28_NoFetchBeforeRobotsAllow ==
    (output.kind = "crawler" /\ input.respect_robots) =>
        \A f \in output.fetches : f.allowed

\* C29: an engine that has performed a fetch is torn down before scrape
\* returns, on every return path: when the run has returned after the
\* selected browser engine fetched the archive page for the validation,
\* WebCrawler.cleanup has been called.
C29_FetchingEngineTornDown ==
    (/\ pc = "done" /\ result.kind = "results"
     /\ archive_engine \in {"playwright", "selenium"} /\ engine_usable(archive_engine)
     /\ last.kind = "validation" /\ last.outcome = "no items")
        => cleaned

\* C30: a save_article call that returns False leaves the sink as it was,
\* the file and the in-memory array alike, so that the article of the failed
\* call is not written by a later save.
C30_FailedSaveLeavesSinkUnchanged ==
    [][(/\ idx' = idx + 1
        /\ last'.outcome \in {"extracted", "extraction raised"}
        /\ stats'.articles_saved = stats.articles_saved)
          => (outFile' = outFile /\ _json_articles' = _json_articles)]_vars

====
